---- MODULE Spec2Model ----
(***************************************************************************)
(* Model of apps/builder/src/features/upload/api/generateUploadUrl.ts:     *)
(* the generateUploadUrl mutation and its path resolver parseFilePath.     *)
(*                                                                         *)
(* A JavaScript string is a sequence of tokens (each token stands for a    *)
(* run of characters); "?" and "/" separators are tokens of their own, so  *)
(* concatenation is \o and split('?') works on the sequence.               *)
(***************************************************************************)
EXTENDS Naturals, Sequences, FiniteSets

\* Largest number of "?"-introduced parts the signer's URL may carry.
MaxQuery == 2

\* ------------------------------------------------------------ JS values

\* The value of a missing property / unset variable (`${undefined}` prints so).
Undefined == <<"undefined">>

\* JS truthiness of a string-or-undefined value: undefined and '' are falsy.
Truthy(v) == v # Undefined /\ v # <<>>

\* 'key' in obj
In(key, obj) == key \in DOMAIN obj

\* obj.key, undefined when the property is missing
Get(obj, key) == IF key \in DOMAIN obj THEN obj[key] ELSE Undefined

\* String.prototype.split(sep): the parts of s between the sep tokens.
RECURSIVE Split(_, _)
Split(s, sep) ==
  LET at == {i \in 1..Len(s) : s[i] = sep} IN
  IF at = {} THEN <<s>>
  ELSE LET i == CHOOSE k \in at : \A j \in at : k <= j
       IN <<SubSeq(s, 1, i - 1)>> \o Split(SubSeq(s, i + 1, Len(s)), sep)

\* ------------------------------------------------------------ value sets

UserIdStrs == {<<"u1">>, <<"u2">>}
WorkspaceIdStrs == {<<"w1">>, <<"w2">>}
TypebotIdStrs == {<<"t1">>, <<"t2">>}
BlockIdStrs == {<<"b1">>}
ItemIdStrs == {<<>>, <<"i1">>}
FileNameStrs == {<<"f.png">>}
FileTypeStrs == {Undefined, <<"image/png">>}

\* z.object({...}).or(...).or(...).or(...): the four shapes a parsed
\* filePathProps can have (zod strips every key a shape does not name).
ByBlockProps ==
  [workspaceId : WorkspaceIdStrs, typebotId : TypebotIdStrs, blockId : BlockIdStrs]
    \cup [workspaceId : WorkspaceIdStrs, typebotId : TypebotIdStrs,
          blockId : BlockIdStrs, itemId : ItemIdStrs]
ByTypebotProps ==
  [workspaceId : WorkspaceIdStrs, typebotId : TypebotIdStrs, fileName : FileNameStrs]
ByUserProps == [userId : UserIdStrs, fileName : FileNameStrs]
ByWorkspaceProps == [workspaceId : WorkspaceIdStrs, fileName : FileNameStrs]
FilePathUploadProps ==
  ByBlockProps \cup ByTypebotProps \cup ByUserProps \cup ByWorkspaceProps

\* ctx.user?.id: undefined when the request carries no session.
AuthenticatedUserIds == {Undefined} \cup UserIdStrs

\* env: the three S3 credentials and the optional public domain.
Envs ==
  [S3_ENDPOINT : {Undefined, <<"s3.local">>},
   S3_ACCESS_KEY : {Undefined, <<"AK">>},
   S3_SECRET_KEY : {Undefined, <<"SK">>},
   S3_PUBLIC_CUSTOM_DOMAIN : {Undefined, <<>>, <<"https://cdn.local">>}]

\* Rows of the store, as the two selects return them.
MemberLists ==
  {<<>>,
   <<[userId |-> <<"u1">>, role |-> "ADMIN"]>>,
   <<[userId |-> <<"u1">>, role |-> "GUEST"], [userId |-> <<"u2">>, role |-> "MEMBER"]>>}
CollaboratorLists ==
  {<<>>,
   <<[userId |-> <<"u1">>, type |-> "WRITE"]>>,
   <<[userId |-> <<"u1">>, type |-> "READ"], [userId |-> <<"u2">>, type |-> "WRITE"]>>}
WorkspaceRows == [members : MemberLists]
TypebotRows == [workspaceId : WorkspaceIdStrs, collaborators : CollaboratorLists]

\* A table: the rows of the ids that exist.
Tables(ids, rows) == UNION {[d -> rows] : d \in SUBSET ids}
WorkspaceTables == Tables(WorkspaceIdStrs, WorkspaceRows)
TypebotTables == Tables({<<"t1">>}, TypebotRows)

VARIABLES env, workspaces, typebots, pc, input, fileType, user,
          filePath, presignedUrl, lookups, signerCalls, response

vars == <<env, workspaces, typebots, pc, input, fileType, user,
          filePath, presignedUrl, lookups, signerCalls, response>>

\* ------------------------------------------------------------ errors, results

TRPCError(code, message) ==
  [status |-> "error", code |-> code, message |-> message,
   presignedUrl |-> Undefined, fileUrl |-> Undefined]
Output(url, fileUrl) ==
  [status |-> "ok", code |-> "OK", message |-> "",
   presignedUrl |-> url, fileUrl |-> fileUrl]
Pending ==
  [status |-> "pending", code |-> "", message |-> "",
   presignedUrl |-> Undefined, fileUrl |-> Undefined]
NoError == {}

\* ------------------------------------------------------------ collaborators

\* prisma.<table>.findUnique({where: {id}}): the row, or null (the empty set).
findUnique(table, id) == IF id \in DOMAIN table THEN {table[id]} ELSE {}

\* isWriteWorkspaceForbidden(workspace, {id}): true when the user holds no
\* role on the workspace that lets them write.
isWriteWorkspaceForbidden(workspace, id) ==
  ~ \E i \in 1..Len(workspace.members) :
       /\ workspace.members[i].userId = id
       /\ workspace.members[i].role # "GUEST"

\* isWriteTypebotForbidden(typebot, {id}): true when the user is no writing
\* collaborator of the typebot.
isWriteTypebotForbidden(typebot, id) ==
  ~ \E i \in 1..Len(typebot.collaborators) :
       /\ typebot.collaborators[i].userId = id
       /\ typebot.collaborators[i].type = "WRITE"

\* "?" followed by one signature parameter, n times over.
RECURSIVE Query(_)
Query(n) == IF n = 0 THEN <<>> ELSE <<"?", "X-Amz-Signature">> \o Query(n - 1)

\* generatePresignedUrl({fileType, filePath}): the URLs the signer may return.
generatePresignedUrl(type, path) ==
  {<<"https://", "s3.local", "/">> \o path \o Query(n) : n \in 0..MaxQuery}

\* ------------------------------------------------------------ the handler's tests

\* line 61
S3NotConfiguredMissingSecret(e) ==
  ~Truthy(e.S3_ENDPOINT) \/ ~Truthy(e.S3_ACCESS_KEY)
S3NotConfigured(e) ==
  ~Truthy(e.S3_ENDPOINT) \/ ~Truthy(e.S3_ACCESS_KEY) \/ ~Truthy(e.S3_SECRET_KEY)

\* line 68
ResultIdWithoutUser(props, u) == In("resultId", props) /\ ~Truthy(u)

\* line 101
NotLoggedInUserScopedOnly(props, authenticatedUserId) ==
  In("userId", props) /\ ~Truthy(authenticatedUserId)
NotLoggedIn(props, authenticatedUserId) == ~Truthy(authenticatedUserId)

\* line 107
OtherUserNeverRejected(props, authenticatedUserId) == FALSE
OtherUser(props, authenticatedUserId) == props.userId # authenticatedUserId

\* lines 133-140
WorkspaceErrorForbiddenTold(workspace, authenticatedUserId) ==
  IF workspace = {}
  THEN {TRPCError("NOT_FOUND", "Workspace not found")}
  ELSE IF \E w \in workspace : isWriteWorkspaceForbidden(w, authenticatedUserId)
       THEN {TRPCError("FORBIDDEN", "Workspace not found")}
       ELSE NoError
WorkspaceErrorPolarity(workspace, authenticatedUserId) ==
  IF \/ workspace = {}
     \/ \E w \in workspace : ~isWriteWorkspaceForbidden(w, authenticatedUserId)
  THEN {TRPCError("NOT_FOUND", "Workspace not found")}
  ELSE NoError
WorkspaceError(workspace, authenticatedUserId) ==
  IF \/ workspace = {}
     \/ \E w \in workspace : isWriteWorkspaceForbidden(w, authenticatedUserId)
  THEN {TRPCError("NOT_FOUND", "Workspace not found")}
  ELSE NoError

\* lines 157-166
TypebotErrorExistingOnly(typebot, authenticatedUserId) ==
  IF typebot = {}
  THEN {TRPCError("NOT_FOUND", "Typebot not found")}
  ELSE NoError
TypebotError(typebot, authenticatedUserId) ==
  IF \/ typebot = {}
     \/ \E t \in typebot : isWriteTypebotForbidden(t, authenticatedUserId)
  THEN {TRPCError("NOT_FOUND", "Typebot not found")}
  ELSE NoError

\* ------------------------------------------------------------ the paths

\* line 112
UserPath(props) ==
  <<"public/users/">> \o props.userId \o <<"/">> \o props.fileName

\* line 141
WorkspacePath(props) ==
  <<"public/workspaces/">> \o props.workspaceId \o <<"/">> \o props.fileName

\* line 168
TypebotPathSwapped(props) ==
  <<"public/workspaces/">> \o props.typebotId \o <<"/typebots/">>
    \o props.workspaceId \o <<"/">> \o props.fileName
TypebotPath(props) ==
  <<"public/workspaces/">> \o props.workspaceId \o <<"/typebots/">>
    \o props.typebotId \o <<"/">> \o props.fileName

\* lines 170-172
BlockPath(props) ==
  <<"public/workspaces/">> \o props.workspaceId \o <<"/typebots/">>
    \o props.typebotId \o <<"/blocks/">> \o props.blockId
    \o (IF Truthy(Get(props, "itemId"))
        THEN <<"/items/">> \o props.itemId
        ELSE <<>>)

\* lines 86-88
FileUrlWholePresigned(e, path, url) ==
  IF Truthy(e.S3_PUBLIC_CUSTOM_DOMAIN)
  THEN e.S3_PUBLIC_CUSTOM_DOMAIN \o <<"/">> \o path
  ELSE url
FileUrl(e, path, url) ==
  IF Truthy(e.S3_PUBLIC_CUSTOM_DOMAIN)
  THEN e.S3_PUBLIC_CUSTOM_DOMAIN \o <<"/">> \o path
  ELSE Split(url, "?")[1]

\* ------------------------------------------------------------ the state machine

TypeOK ==
  /\ env \in Envs
  /\ workspaces \in WorkspaceTables
  /\ typebots \in TypebotTables
  /\ pc \in {"idle", "config", "loggedIn", "parse", "dispatch", "workspace",
             "typebot", "sign", "respond", "done"}
  /\ user \in AuthenticatedUserIds
  /\ fileType \in FileTypeStrs

\* The deployment (its env and the rows of its store), no request in flight.
Init ==
  /\ env \in Envs
  /\ workspaces \in WorkspaceTables
  /\ typebots \in TypebotTables
  /\ pc = "idle"
  /\ input = [fileName |-> <<>>]
  /\ fileType = Undefined
  /\ user = Undefined
  /\ filePath = Undefined
  /\ presignedUrl = Undefined
  /\ lookups = <<>>
  /\ signerCalls = <<>>
  /\ response = Pending

db == <<env, workspaces, typebots>>
request == <<input, fileType, user>>

\* A request arrives: .input(inputSchema) has parsed it, ctx carries the user.
Receive ==
  /\ pc = "idle"
  /\ \E props \in FilePathUploadProps, type \in FileTypeStrs,
        u \in AuthenticatedUserIds :
       /\ input' = props
       /\ fileType' = type
       /\ user' = u
  /\ pc' = "config"
  /\ filePath' = Undefined
  /\ presignedUrl' = Undefined
  /\ lookups' = <<>>
  /\ signerCalls' = <<>>
  /\ response' = Pending
  /\ UNCHANGED db

Throw(error) ==
  /\ response' = error
  /\ pc' = "done"

\* lines 64-65
S3NotConfiguredMessage ==
  "S3 not properly configured. Missing one of those variables: S3_ENDPOINT, S3_ACCESS_KEY, S3_SECRET_KEY"

\* lines 61-66
CheckConfig ==
  /\ pc = "config"
  /\ IF S3NotConfigured(env)
     THEN Throw(TRPCError("INTERNAL_SERVER_ERROR", S3NotConfiguredMessage))
     ELSE pc' = "loggedIn" /\ UNCHANGED response
  /\ UNCHANGED <<db, request, filePath, presignedUrl, lookups, signerCalls>>

\* lines 68-72
CheckResultId ==
  /\ pc = "loggedIn"
  /\ IF ResultIdWithoutUser(input, user)
     THEN Throw(TRPCError("UNAUTHORIZED", "You must be logged in to upload a file"))
     ELSE pc' = "parse" /\ UNCHANGED response
  /\ UNCHANGED <<db, request, filePath, presignedUrl, lookups, signerCalls>>

\* lines 74-77, 101-105: parseFilePath is entered with user?.id
Authenticate ==
  /\ pc = "parse"
  /\ IF NotLoggedIn(input, user)
     THEN Throw(TRPCError("UNAUTHORIZED",
                          "You must be logged in to upload this type of file"))
     ELSE pc' = "dispatch" /\ UNCHANGED response
  /\ UNCHANGED <<db, request, filePath, presignedUrl, lookups, signerCalls>>

\* lines 106-119, and the query of line 120 or 143 being sent
Dispatch ==
  /\ pc = "dispatch"
  /\ IF In("userId", input)
     THEN /\ IF OtherUser(input, user)
             THEN /\ Throw(TRPCError("UNAUTHORIZED",
                      "You are not authorized to upload a file for this user"))
                  /\ UNCHANGED filePath
             ELSE /\ filePath' = UserPath(input)
                  /\ pc' = "sign"
                  /\ UNCHANGED response
          /\ UNCHANGED lookups
     ELSE IF ~In("workspaceId", input)
     THEN /\ Throw(TRPCError("BAD_REQUEST", "workspaceId is missing"))
          /\ UNCHANGED <<filePath, lookups>>
     ELSE IF ~In("typebotId", input)
     THEN /\ lookups' = Append(lookups, [table |-> "workspace", id |-> input.workspaceId])
          /\ pc' = "workspace"
          /\ UNCHANGED <<filePath, response>>
     ELSE /\ lookups' = Append(lookups, [table |-> "typebot", id |-> input.typebotId])
          /\ pc' = "typebot"
          /\ UNCHANGED <<filePath, response>>
  /\ UNCHANGED <<db, request, presignedUrl, signerCalls>>

\* lines 120-142: the workspace query answers
WorkspaceLookup ==
  /\ pc = "workspace"
  /\ LET workspace == findUnique(workspaces, input.workspaceId)
         error == WorkspaceError(workspace, user)
     IN IF error # NoError
        THEN (\E e \in error : Throw(e)) /\ UNCHANGED filePath
        ELSE /\ filePath' = WorkspacePath(input)
             /\ pc' = "sign"
             /\ UNCHANGED response
  /\ UNCHANGED <<db, request, presignedUrl, lookups, signerCalls>>

\* lines 143-172: the typebot query answers
TypebotLookup ==
  /\ pc = "typebot"
  /\ LET typebot == findUnique(typebots, input.typebotId)
         error == TypebotError(typebot, user)
     IN IF error # NoError
        THEN (\E e \in error : Throw(e)) /\ UNCHANGED filePath
        ELSE /\ filePath' = IF ~In("blockId", input)
                            THEN TypebotPath(input)
                            ELSE BlockPath(input)
             /\ pc' = "sign"
             /\ UNCHANGED response
  /\ UNCHANGED <<db, request, presignedUrl, lookups, signerCalls>>

\* lines 79-82: the signer is called and answers
Sign ==
  /\ pc = "sign"
  /\ \E url \in generatePresignedUrl(fileType, filePath) :
       /\ presignedUrl' = url
       /\ signerCalls' = Append(signerCalls,
            [fileType |-> fileType, filePath |-> filePath, url |-> url])
  /\ pc' = "respond"
  /\ UNCHANGED <<db, request, filePath, lookups, response>>

\* lines 79-82: the signer is called and rejects; the mutation rejects with it
SignFails ==
  /\ pc = "sign"
  /\ signerCalls' = Append(signerCalls,
       [fileType |-> fileType, filePath |-> filePath, url |-> Undefined])
  /\ Throw(TRPCError("INTERNAL_SERVER_ERROR", "signer failed"))
  /\ UNCHANGED <<db, request, filePath, presignedUrl, lookups>>

\* lines 84-89
Respond ==
  /\ pc = "respond"
  /\ response' = Output(presignedUrl, FileUrl(env, filePath, presignedUrl))
  /\ pc' = "done"
  /\ UNCHANGED <<db, request, filePath, presignedUrl, lookups, signerCalls>>

\* The response (or the error) has gone out; the handler's locals are gone.
Complete ==
  /\ pc = "done"
  /\ pc' = "idle"
  /\ input' = [fileName |-> <<>>]
  /\ fileType' = Undefined
  /\ user' = Undefined
  /\ filePath' = Undefined
  /\ presignedUrl' = Undefined
  /\ lookups' = <<>>
  /\ signerCalls' = <<>>
  /\ response' = Pending
  /\ UNCHANGED db

Next ==
  \/ Receive
  \/ CheckConfig
  \/ CheckResultId
  \/ Authenticate
  \/ Dispatch
  \/ WorkspaceLookup
  \/ TypebotLookup
  \/ Sign
  \/ SignFails
  \/ Respond
  \/ Complete

Spec == Init /\ [][Next]_vars


\* ------------------------------------------------------------ vocabulary of the properties

IsByUser(p) == DOMAIN p = {"userId", "fileName"}
IsByWorkspace(p) == DOMAIN p = {"workspaceId", "fileName"}
IsByTypebot(p) == DOMAIN p = {"workspaceId", "typebotId", "fileName"}
IsByBlock(p) ==
  \/ DOMAIN p = {"workspaceId", "typebotId", "blockId"}
  \/ DOMAIN p = {"workspaceId", "typebotId", "blockId", "itemId"}

Set(v) == v \notin {Undefined, <<>>}
Configured == Set(env.S3_ENDPOINT) /\ Set(env.S3_ACCESS_KEY) /\ Set(env.S3_SECRET_KEY)
LoggedIn == Set(user)
Done == pc = "done"
Succeeded == Done /\ response.status = "ok"
FailedWith(code) ==
  /\ Done
  /\ response.status = "error"
  /\ response.code = code
  /\ response.presignedUrl = Undefined
  /\ response.fileUrl = Undefined
Returned == filePath # Undefined
NoLookup == lookups = <<>>
NoSignerCall == signerCalls = <<>> /\ presignedUrl = Undefined

WorkspaceExists == input.workspaceId \in DOMAIN workspaces
WorkspaceForbidden == isWriteWorkspaceForbidden(workspaces[input.workspaceId], user)
TypebotExists == input.typebotId \in DOMAIN typebots
TypebotForbidden == isWriteTypebotForbidden(typebots[input.typebotId], user)

\* The request's own permission check lets it through.
Permitted ==
  IF IsByUser(input) THEN input.userId = user
  ELSE IF IsByWorkspace(input) THEN WorkspaceExists /\ ~WorkspaceForbidden
  ELSE TypebotExists /\ ~TypebotForbidden

EndsWith(s, t) ==
  Len(t) <= Len(s) /\ SubSeq(s, Len(s) - Len(t) + 1, Len(s)) = t

\* s up to, and without, its first "?"; all of s when it has none.
BeforeFirstQuestionMark(s) ==
  IF \E i \in 1..Len(s) : s[i] = "?"
  THEN SubSeq(s, 1, (CHOOSE i \in 1..Len(s) :
                       s[i] = "?" /\ \A j \in 1..(i - 1) : s[j] # "?") - 1)
  ELSE s

\* ------------------------------------------------------------ C1

\* C1: a logged-in request that passes its permission check gets from
\* parseFilePath exactly public/users/{userId}/{fileName} (ByUser),
\* public/workspaces/{workspaceId}/{fileName} (ByWorkspace),
\* public/workspaces/{workspaceId}/typebots/{typebotId}/{fileName} (ByTypebot),
\* public/workspaces/{workspaceId}/typebots/{typebotId}/blocks/{blockId},
\* optionally followed by /items/{itemId} (ByBlock), built from the ids and
\* the fileName of the request; and parseFilePath returns a path only then.
C1_PathFormat ==
  /\ Returned =>
       /\ LoggedIn /\ Permitted
       /\ IsByUser(input) =>
            filePath = <<"public/users/", input.userId[1], "/", input.fileName[1]>>
       /\ IsByWorkspace(input) =>
            filePath = <<"public/workspaces/", input.workspaceId[1], "/",
                         input.fileName[1]>>
       /\ IsByTypebot(input) =>
            filePath = <<"public/workspaces/", input.workspaceId[1], "/typebots/",
                         input.typebotId[1], "/", input.fileName[1]>>
       /\ IsByBlock(input) =>
            LET block == <<"public/workspaces/", input.workspaceId[1], "/typebots/",
                           input.typebotId[1], "/blocks/", input.blockId[1]>>
            IN \/ filePath = block
               \/ /\ "itemId" \in DOMAIN input
                  /\ filePath = block \o <<"/items/">> \o input.itemId
  /\ (Done /\ Configured /\ LoggedIn /\ Permitted) => Returned

C1_Witness ==
  /\ Succeeded
  /\ IsByTypebot(input)
  /\ input.typebotId[1] # input.workspaceId[1]
  /\ filePath = <<"public/workspaces/", "w2", "/typebots/", "t1", "/", "f.png">>

\* ------------------------------------------------------------ C2

\* C2: a request without an authenticated user that the storage configuration
\* check (line 61, claim C8) lets through fails with UNAUTHORIZED whatever its
\* variant; and no request without a user ever gets a workspace lookup, a
\* typebot lookup, a path or a signer call.
C2_UnauthenticatedRejectedFirst ==
  /\ ~LoggedIn => NoLookup /\ NoSignerCall /\ ~Returned
  /\ (Done /\ Configured /\ ~LoggedIn) => FailedWith("UNAUTHORIZED")

C2_Witness ==
  /\ FailedWith("UNAUTHORIZED")
  /\ ~LoggedIn
  /\ IsByBlock(input)
  /\ TypebotExists

\* ------------------------------------------------------------ C3

\* C3: a ByUser request never causes a store lookup; once logged in and past
\* the configuration check, it fails with UNAUTHORIZED when its userId is not
\* the authenticated user's id, and is authorized (parseFilePath returns the
\* user's path) when the two are equal.
C3_ByUserChecksIdOnly ==
  IsByUser(input) =>
    /\ NoLookup
    /\ (Done /\ Configured /\ LoggedIn) =>
         IF input.userId # user
         THEN FailedWith("UNAUTHORIZED") /\ ~Returned /\ NoSignerCall
         ELSE Returned /\ signerCalls # <<>>

C3_Witness ==
  /\ FailedWith("UNAUTHORIZED")
  /\ IsByUser(input)
  /\ LoggedIn
  /\ input.userId # user

\* ------------------------------------------------------------ C4

\* C4 as stated: for a ByWorkspace request whose workspace exists, when the
\* predicate applied to the membership list and the user id (the code's
\* isWriteWorkspaceForbidden) returns false, the request fails with NOT_FOUND
\* (stated of every point from the workspace check on).
C4_AsStated ==
  (/\ pc \in {"sign", "respond", "done"}
   /\ Configured /\ LoggedIn
   /\ IsByWorkspace(input)
   /\ WorkspaceExists
   /\ isWriteWorkspaceForbidden(workspaces[input.workspaceId], user) = FALSE)
    => FailedWith("NOT_FOUND")

\* C4 amended: for a ByWorkspace request whose workspace exists, when
\* isWriteWorkspaceForbidden (applied to the membership list and the user id)
\* returns true, the request fails with NOT_FOUND, not FORBIDDEN, and the
\* signer is not called; when it returns false parseFilePath returns a path.
C4_ForbiddenWorkspaceIsNotFound ==
  (/\ Done /\ Configured /\ LoggedIn
   /\ IsByWorkspace(input)
   /\ WorkspaceExists)
    => IF isWriteWorkspaceForbidden(workspaces[input.workspaceId], user) = TRUE
       THEN FailedWith("NOT_FOUND") /\ ~Returned /\ NoSignerCall
       ELSE Returned

C4_Witness ==
  /\ FailedWith("NOT_FOUND")
  /\ IsByWorkspace(input)
  /\ LoggedIn
  /\ WorkspaceExists
  /\ WorkspaceForbidden

\* ------------------------------------------------------------ C5

WorkspaceNotFound ==
  [status |-> "error", code |-> "NOT_FOUND", message |-> "Workspace not found",
   presignedUrl |-> Undefined, fileUrl |-> Undefined]
TypebotNotFound ==
  [status |-> "error", code |-> "NOT_FOUND", message |-> "Typebot not found",
   presignedUrl |-> Undefined, fileUrl |-> Undefined]

\* C5: a logged-in request (past the configuration check) for a workspace, or
\* for a typebot, gets one and the same outcome whether the entity is missing
\* or exists and is forbidden to the user: the same NOT_FOUND error with the
\* same message, no URL, one lookup, no path and no signer call.
C5_MissingAndForbiddenAlike ==
  (Done /\ Configured /\ LoggedIn /\ ~IsByUser(input)) =>
    /\ (IsByWorkspace(input) /\ (~WorkspaceExists \/ WorkspaceForbidden)) =>
         /\ response = WorkspaceNotFound
         /\ Len(lookups) = 1 /\ ~Returned /\ NoSignerCall
    /\ (~IsByWorkspace(input) /\ (~TypebotExists \/ TypebotForbidden)) =>
         /\ response = TypebotNotFound
         /\ Len(lookups) = 1 /\ ~Returned /\ NoSignerCall

C5_Witness ==
  /\ Done /\ Configured /\ LoggedIn
  /\ IsByTypebot(input)
  /\ TypebotExists
  /\ TypebotForbidden
  /\ response = TypebotNotFound

\* ------------------------------------------------------------ C6

\* C6: for an authorized ByBlock request the path ends with /items/{itemId}
\* when the itemId field is set, whatever string it carries (the empty one
\* included), and ends at /blocks/{blockId} when the field is absent.
C6_ItemIdSuffix ==
  (Returned /\ IsByBlock(input)) =>
    IF "itemId" \in DOMAIN input
    THEN EndsWith(filePath, <<"/items/">> \o input.itemId)
    ELSE EndsWith(filePath, <<"/blocks/">> \o input.blockId)

\* ------------------------------------------------------------ C7

DomainConfigured == Set(env.S3_PUBLIC_CUSTOM_DOMAIN)

\* C7: a successful request returns the presignedUrl exactly as the signer
\* produced it, in its one call, for the request's path and fileType; its
\* fileUrl is {publicDomain}/{path} when a public domain is configured and
\* otherwise the presignedUrl cut at its first "?" (all of it without one).
C7_FileUrl ==
  Succeeded =>
    /\ Len(signerCalls) = 1
    /\ signerCalls[1].filePath = filePath
    /\ signerCalls[1].fileType = fileType
    /\ response.presignedUrl = signerCalls[1].url
    /\ response.fileUrl =
         IF DomainConfigured
         THEN env.S3_PUBLIC_CUSTOM_DOMAIN \o <<"/">> \o filePath
         ELSE BeforeFirstQuestionMark(response.presignedUrl)

C7_Witness ==
  /\ Succeeded
  /\ ~DomainConfigured
  /\ Cardinality({i \in 1..Len(response.presignedUrl) :
                    response.presignedUrl[i] = "?"}) = 2
  /\ response.fileUrl = <<"https://", "s3.local", "/">> \o filePath

\* ------------------------------------------------------------ C8

\* C8: with any of S3_ENDPOINT, S3_ACCESS_KEY, S3_SECRET_KEY missing the
\* request fails with the configuration error, whatever its shape, its user
\* and the rows of the store; no lookup, no path and no signer call occur.
C8_ConfigCheckedFirst ==
  ~Configured =>
    /\ NoLookup /\ NoSignerCall /\ ~Returned
    /\ Done => /\ FailedWith("INTERNAL_SERVER_ERROR")
               /\ response.message =
                    "S3 not properly configured. Missing one of those variables: S3_ENDPOINT, S3_ACCESS_KEY, S3_SECRET_KEY"

C8_Witness ==
  /\ FailedWith("INTERNAL_SERVER_ERROR")
  /\ Set(env.S3_ENDPOINT) /\ Set(env.S3_ACCESS_KEY) /\ ~Set(env.S3_SECRET_KEY)
  /\ LoggedIn
  /\ IsByUser(input)
  /\ input.userId = user

\* ------------------------------------------------------------ C9

\* C9: a request that succeeded with a path under public/workspaces/{w}/
\* passed a write check covering w: the workspace check on w (ByWorkspace), or
\* the typebot check on a typebot whose owning workspaceId is w (ByTypebot,
\* ByBlock), so that the path's workspace is the looked-up typebot's.
C9_PathWorkspaceIsChecked ==
  (Succeeded /\ ~IsByUser(input)) =>
    IF IsByWorkspace(input)
    THEN /\ WorkspaceExists /\ ~WorkspaceForbidden
         /\ SubSeq(filePath, 1, 2) = <<"public/workspaces/">> \o input.workspaceId
    ELSE /\ TypebotExists /\ ~TypebotForbidden
         /\ SubSeq(filePath, 1, 2) =
              <<"public/workspaces/">> \o typebots[input.typebotId].workspaceId

\* ------------------------------------------------------------ C10

\* C10: the signer is called at most once and only when the configuration
\* check, the authentication check and the variant's permission check have
\* passed; at most one lookup is made, on the table of the variant; after a
\* failed check the request is over: no path, no URL, nothing further runs.
C10_OrderedAndAtomic ==
  /\ Len(signerCalls) <= 1
  /\ Len(lookups) <= 1
  /\ \A i \in 1..Len(lookups) :
       lookups[i].table = IF IsByWorkspace(input) THEN "workspace" ELSE "typebot"
  /\ (signerCalls # <<>> \/ Returned) => Configured /\ LoggedIn /\ Permitted
  /\ lookups # <<>> => Configured /\ LoggedIn
  /\ response.status = "error" =>
       /\ Done
       /\ response.presignedUrl = Undefined /\ response.fileUrl = Undefined
       /\ presignedUrl = Undefined
       /\ (signerCalls = <<>> \/ (Returned /\ signerCalls[1].url = Undefined))
  /\ (Done /\ ~(Configured /\ LoggedIn /\ Permitted)) =>
       response.status = "error" /\ NoSignerCall /\ ~Returned

C10_Witness ==
  /\ Succeeded
  /\ IsByBlock(input)
  /\ Len(lookups) = 1
  /\ Len(signerCalls) = 1

====
